---- MODULE Spec2Model ----
(***************************************************************************)
(* Model of the crawl engine of backend/chatbot/web_crawler.py             *)
(* (class AngelOneWebCrawler and main).                                    *)
(*                                                                         *)
(* Strings are sequences of tokens.  A token is either one of the URL      *)
(* delimiter characters ":", "/", "?", "#" or a maximal run of other       *)
(* characters ("https", "www.angelone.in", "support", ...).  The URL       *)
(* functions work on these sequences the way the Python code works on the  *)
(* characters: urlparse splits at the delimiters, normalize_url formats    *)
(* the parts back into a string and cuts its last character.               *)
(***************************************************************************)
EXTENDS Integers, Sequences, FiniteSets, TLC

VARIABLES
    base_url,       \* self.base_url
    driver,         \* self.driver: TRUE = a Chrome session, FALSE = None
    visited_urls,   \* self.visited_urls
    failed_urls,    \* self.failed_urls
    url_queue,      \* self.url_queue
    scraped_data,   \* self.scraped_data
    scraped_count,  \* local scraped_count of crawl_all_support_pages
    url,            \* local normalized_url of the running iteration
    content,        \* local content of the running iteration
    pc,             \* position of main / crawl_all_support_pages
    summary,        \* the summaries save_data has written
    quits,          \* number of driver.quit() calls
    calls,          \* the calls of scrape_page_content so far: <<url, outcome>>
    extract,        \* what the running call of scrape_page_content went through
    delays,         \* the time.sleep(1) calls of the loop since the last fetch
    entered,        \* the canonical URLs in the order they first joined the queue
    fn_parts,       \* components of the URL given to the pure functions
    fn_url,         \* the URL given to the pure functions
    fn_out,         \* successive results of normalize_url
    fn_alt,         \* normalize_url of a variant of the input
    fn_scope,       \* results of is_support_url
    unit_in,        \* the input given to one function of the crawler
    unit_out,       \* what the function returned
    scroll,         \* the scroll loop of the rendered discovery pass
    mgr,            \* a VectorDBManager and the database on disk
    api             \* the module views: the RAG service holder, ChatHistory, the last request

vars == <<base_url, driver, visited_urls, failed_urls, url_queue, scraped_data,
          scraped_count, url, content, pc, summary, quits, calls, extract,
          delays, entered,
          fn_parts, fn_url, fn_out, fn_alt, fn_scope, unit_in, unit_out, scroll, mgr, api>>

crawl_vars == <<base_url, driver, visited_urls, failed_urls, url_queue,
                scraped_data, scraped_count, url, content, pc, summary, quits,
                calls, extract, delays, entered>>

obs_vars == <<calls, extract>>

order_vars == <<delays, entered>>

url_vars == <<fn_parts, fn_url, fn_out, fn_alt, fn_scope>>

unit_vars == <<unit_in, unit_out>>

svc_vars == <<scroll, mgr, api>>

fn_vars == <<url_vars, unit_vars, svc_vars>>

-----------------------------------------------------------------------------
(* Python values *)

\* Python's None; no string equals it (no URL holds the token "None")
None == <<"None">>

\* truth value of a string or None: `if not x`
Truthy(s) == s # None /\ s # <<>>

\* len(s): the number of characters of a string
RECURSIVE len(_)
len(s) == IF s = <<>> THEN 0 ELSE Len(Head(s)) + len(Tail(s))

\* s.endswith(c) for a one-character c
endswith(s, c) == Len(s) > 0 /\ s[Len(s)] = c

\* pairs <<token, prefix>> where prefix is a proper character prefix of token
CharPrefixes == {<<"supporters", "support">>}

\* s.startswith(p): p's tokens but the last are s's, and p's last token is a
\* character prefix of the token of s at that place
startswith(s, p) ==
    \/ p = <<>>
    \/ /\ Len(s) >= Len(p)
       /\ SubSeq(s, 1, Len(p) - 1) = SubSeq(p, 1, Len(p) - 1)
       /\ \/ s[Len(p)] = p[Len(p)]
          \/ <<s[Len(p)], p[Len(p)]>> \in CharPrefixes

\* s.find of the first character out of cs, from index i on; Len(s)+1 if none
RECURSIVE find(_, _, _)
find(s, cs, i) ==
    IF i > Len(s) THEN Len(s) + 1
    ELSE IF s[i] \in cs THEN i
    ELSE find(s, cs, i + 1)

-----------------------------------------------------------------------------
(* urllib.parse *)

\* tokens made of scheme characters only (letters, digits, "+", "-", ".")
SchemeTokens == {"https", "http", "www.angelone.in", "example.com",
                 "support", "supporters", "faq", "kyc", "docs", "other", "top"}

\* urlsplit, last step: the query after the first "?" of what is left, and
\* the path before it
split_query(scheme, netloc, r, fragment) ==
    [scheme |-> scheme, netloc |-> netloc,
     path |-> SubSeq(r, 1, find(r, {"?"}, 1) - 1),
     query |-> SubSeq(r, find(r, {"?"}, 1) + 1, Len(r)),
     fragment |-> fragment]

\* urlsplit, third step: the fragment after the first "#"
split_fragment(scheme, netloc, r) ==
    split_query(scheme, netloc,
                SubSeq(r, 1, find(r, {"#"}, 1) - 1),
                SubSeq(r, find(r, {"#"}, 1) + 1, Len(r)))

\* urlsplit, second step: after "//" the netloc runs up to the next "/", "?"
\* or "#"
split_netloc(scheme, r) ==
    IF Len(r) >= 2 /\ r[1] = "/" /\ r[2] = "/"
    THEN split_fragment(scheme,
                        SubSeq(r, 3, find(r, {"/", "?", "#"}, 3) - 1),
                        SubSeq(r, find(r, {"/", "?", "#"}, 3), Len(r)))
    ELSE split_fragment(scheme, <<>>, r)

\* urlparse(url): the scheme is what stands before a first ":", if it is made
\* of scheme characters; then the steps above
urlparse(u) ==
    IF Len(u) >= 2 /\ u[2] = ":" /\ u[1] \in SchemeTokens
    THEN split_netloc(<<u[1]>>, SubSeq(u, 3, Len(u)))
    ELSE split_netloc(<<>>, u)

\* urljoin with base already parsed
join_parsed(parsed_base, href) ==
    parsed_base.scheme \o <<":", "/", "/">> \o parsed_base.netloc \o href

\* urljoin(base, href) for the two href shapes of the model: an absolute URL
\* is kept, a path-absolute reference takes scheme and netloc of base
urljoin(base, href) ==
    IF Len(href) >= 2 /\ href[2] = ":" /\ href[1] \in SchemeTokens
    THEN href
    ELSE join_parsed(urlparse(base), href)

-----------------------------------------------------------------------------
(* AngelOneWebCrawler.normalize_url *)

\* f"{parsed.scheme}://{parsed.netloc}{parsed.path}"
format_normalized(parsed) ==
    parsed.scheme \o <<":", "/", "/">> \o parsed.netloc \o parsed.path

\* the trailing slash is cut from the formatted string
strip_trailing_slash(normalized) ==
    IF endswith(normalized, "/") /\ len(normalized) > 1
    THEN SubSeq(normalized, 1, Len(normalized) - 1)
    ELSE normalized

normalize_url(u) ==
    IF ~Truthy(u) THEN None
    ELSE strip_trailing_slash(format_normalized(urlparse(u)))

-----------------------------------------------------------------------------
(* The site: what the crawler is constructed with and what fetches return *)

\* most pages scraped by one run (max_pages of the constructor)
MaxPages == 2

\* most anchors of one fetched document
MaxLinks == 2

DefaultBase == <<"https", ":", "/", "/", "www.angelone.in", "/", "support">>

\* a base_url argument other than the default
OtherBase == <<"https", ":", "/", "/", "example.com", "/", "docs">>

BaseUrls == {DefaultBase, OtherBase}

\* href values of the anchors a document may hold
Anchors ==
    { <<"/", "support", "/", "faq">>,
      <<"/", "support", "/", "faq", "/", "?", "x=1", "#", "top">>,
      <<"/", "support", "/", "faq", "/", "/">>,
      DefaultBase,
      <<"https", ":", "/", "/", "www.angelone.in", "/", "support", "/", "kyc">>,
      <<"/", "other">> }

AnchorSets == {S \in SUBSET Anchors : Cardinality(S) <= MaxLinks}

\* length of the cleaned text of a statically fetched document
StaticLens == {40, 50, 150, 400}

\* length of the text scrape_with_selenium returns ("" on any failure)
SeleniumLens == {0, 45, 400}

\* the floor below which the rendered fetch is tried
RenderedFallbackFloor == 200

\* the length a final text must exceed
ContentLengthFloor == 50

\* session.get + raise_for_status + BeautifulSoup: an exception, or a document
\* with its anchors
Responses == [ok : {FALSE}, anchors : {{}}] \cup [ok : {TRUE}, anchors : AnchorSets]

\* the orders in which Python may iterate over a set
RECURSIVE Orders(_)
Orders(S) ==
    IF S = {} THEN {<<>>}
    ELSE UNION {{<<x>> \o s : s \in Orders(S \ {x})} : x \in S}

\* the value of content when scrape_page_content returned None
NoPage == [url |-> None, content |-> 0, content_length |-> 0]

\* a statically fetched document as scrape_page_content reads it: the element
\* the text is taken from (the first matching content selector, else the body,
\* else nothing) and the length of its cleaned text
Documents ==
    {[element |-> "none", length |-> 0]}
      \cup [element : {"selector", "body"}, length : StaticLens]

\* what the Chrome session does when asked for a page: it raises (driver.get,
\* the wait for the body), or it gives a page whose cleaned text has the length
RenderResults ==
    {[failed |-> TRUE, length |-> 0]} \cup [failed : {FALSE}, length : SeleniumLens]

\* extract when no call of scrape_page_content is running
NoCall == [called |-> FALSE, raised |-> FALSE, has_element |-> FALSE,
           static_len |-> 0, tried |-> FALSE, render_failed |-> FALSE,
           rendered_len |-> 0, harvested |-> 0, nav_only |-> {}]

\* the URL components before the pure functions are given any
NoParts == [scheme |-> <<>>, netloc |-> <<>>, path |-> <<>>, query |-> <<>>,
            fragment |-> <<>>]

-----------------------------------------------------------------------------
(* Text: a string is the sequence of its characters *)

\* the characters str.strip() removes from both ends of a line
Whitespace == {" ", "\t"}

\* text.split('\n')
RECURSIVE SplitLines(_, _)
SplitLines(text, line) ==
    IF text = <<>> THEN <<line>>
    ELSE IF Head(text) = "\n" THEN <<line>> \o SplitLines(Tail(text), <<>>)
    ELSE SplitLines(Tail(text), Append(line, Head(text)))

\* '\n'.join(cleaned_lines)
RECURSIVE JoinLines(_)
JoinLines(lines) ==
    IF lines = <<>> THEN <<>>
    ELSE IF Len(lines) = 1 THEN Head(lines)
    ELSE Head(lines) \o <<"\n">> \o JoinLines(Tail(lines))

\* line.lstrip() and line.rstrip()
RECURSIVE LStrip(_), RStrip(_)
LStrip(line) ==
    IF line # <<>> /\ Head(line) \in Whitespace THEN LStrip(Tail(line)) ELSE line

RStrip(line) ==
    IF line # <<>> /\ line[Len(line)] \in Whitespace
    THEN RStrip(SubSeq(line, 1, Len(line) - 1)) ELSE line

\* line.strip()
Strip(line) == RStrip(LStrip(line))

\* the length a stripped line must exceed to be kept
MinLineLength == 3

\* CleanedLines keeping the lines of exactly MinLineLength characters as well
RECURSIVE CleanedLines_KeepsThree(_)
CleanedLines_KeepsThree(lines) ==
    IF lines = <<>> THEN <<>>
    ELSE (IF Strip(Head(lines)) # <<>> /\ Len(Strip(Head(lines))) >= MinLineLength
          THEN <<Strip(Head(lines))>> ELSE <<>>)
           \o CleanedLines_KeepsThree(Tail(lines))

\* clean_text, the loop over the lines: every line is stripped, and appended
\* to cleaned_lines if it is longer than three characters
RECURSIVE CleanedLines(_)
CleanedLines(lines) ==
    IF lines = <<>> THEN <<>>
    ELSE (IF Strip(Head(lines)) # <<>> /\ Len(Strip(Head(lines))) > MinLineLength
          THEN <<Strip(Head(lines))>> ELSE <<>>)
           \o CleanedLines(Tail(lines))

\* AngelOneWebCrawler.clean_text
clean_text(text) ==
    IF ~Truthy(text) THEN <<>>
    ELSE JoinLines(CleanedLines(SplitLines(text, <<>>)))

\* most lines of a text given to clean_text
MaxLines == 2

\* the lines the texts are made of: empty, blank, of three and of four
\* characters, padded with whitespace, with whitespace inside
Lines ==
    { <<>>, <<" ">>, <<"a", "b", "c">>, <<"a", "b", "c", "d">>,
      <<" ", "a", "b", "c", "d", "\t">>, <<"\t", "a", "b", "c", " ">>,
      <<"a", " ", "b", "c">> }

\* the texts of at most n lines
RECURSIVE TextsOf(_)
TextsOf(n) ==
    IF n = 1 THEN Lines
    ELSE TextsOf(n - 1)
           \cup {text \o <<"\n">> \o line : text \in TextsOf(n - 1), line \in Lines}

Texts == TextsOf(MaxLines)

-----------------------------------------------------------------------------
(* Content extraction from a parsed document *)

\* content_selectors of scrape_page_content
content_selectors ==
    <<".support-content", ".help-content", ".faq-content", ".article-content",
      ".main-content", ".content", "main", "article", ".container .row",
      ".container">>

\* content_selectors of scrape_with_selenium
selenium_content_selectors ==
    <<".support-content", ".help-content", ".faq-content", ".article-content",
      ".main-content", ".content", "main", "article">>

Selectors == {content_selectors[i] : i \in DOMAIN content_selectors}

\* most selectors that match an element of one document
MaxMatched == 2

\* what html2text makes of the markup of an element, before the line breaks
\* that end its output: nothing (an empty element), a short line, a long one,
\* two lines
Fragments ==
    { <<>>, <<"a", "b", "c">>, <<" ", "a", "b", "c", "d", "e">>,
      <<"a", "b", "\n", "w", "x", "y", "z">> }

\* the selector sets that can match in one document: an element matched by
\* '.container .row' stands inside one matched by '.container'
MatchSets ==
    {S \in SUBSET Selectors :
        /\ Cardinality(S) <= MaxMatched
        /\ ".container .row" \in S => ".container" \in S}

\* a parsed document after the unwanted elements were removed: for each
\* selector the first element it matches (None if it matches nothing), and
\* the body element (None if the document has none)
Doms ==
    UNION {{[elems |-> [s \in Selectors |-> IF s \in S THEN g[s] ELSE None],
             body |-> b] : g \in [S -> Fragments], b \in Fragments \cup {None}} :
            S \in MatchSets}

\* the document before any was given
NoDom == [elems |-> [s \in Selectors |-> None], body |-> None]

\* self.html_converter.handle(str(element)): HTML2Text.handle ends its output
\* with line breaks, whatever the element holds
handle(markup) == markup \o <<"\n", "\n">>

\* no element chosen, no text
NoContent == [source |-> "", text |-> <<>>]

\* FirstMatch without the break: the last selector that matches wins
RECURSIVE FirstMatch_NoBreak(_, _)
FirstMatch_NoBreak(dom, selectors) ==
    IF selectors = <<>> THEN NoContent
    ELSE IF /\ dom.elems[Head(selectors)] # None
            /\ FirstMatch_NoBreak(dom, Tail(selectors)) = NoContent
    THEN [source |-> Head(selectors), text |-> handle(dom.elems[Head(selectors)])]
    ELSE FirstMatch_NoBreak(dom, Tail(selectors))

\* the loop over the selectors: the first selector for which select_one gives
\* an element ends the loop, with that element converted
RECURSIVE FirstMatch(_, _)
FirstMatch(dom, selectors) ==
    IF selectors = <<>> THEN NoContent
    ELSE IF dom.elems[Head(selectors)] # None
    THEN [source |-> Head(selectors), text |-> handle(dom.elems[Head(selectors)])]
    ELSE FirstMatch(dom, Tail(selectors))

\* soup.find('body'), converted if there is one
BodyContent(dom) ==
    IF dom.body # None THEN [source |-> "body", text |-> handle(dom.body)]
    ELSE NoContent

\* scrape_page_content: the selectors, the body when content_text is still
\* empty, clean_text
StaticFallback(dom, found) ==
    IF ~Truthy(found.text) THEN BodyContent(dom) ELSE found

StaticContent(dom) ==
    [StaticFallback(dom, FirstMatch(dom, content_selectors))
       EXCEPT !.text = clean_text(@)]

\* scrape_with_selenium on the page source: return at the first selector that
\* matches, else the body, else ""
RenderedFallback(dom, found) ==
    IF found.source = "" THEN BodyContent(dom) ELSE found

RenderedContent(dom) ==
    [RenderedFallback(dom, FirstMatch(dom, selenium_content_selectors))
       EXCEPT !.text = clean_text(@)]

-----------------------------------------------------------------------------
(* The functions of the crawler on their own: a crawler as constructed is
   given one input for one of its functions *)

\* a fetch that raised
FailedResponse == [ok |-> FALSE, anchors |-> {}]

NoInput == [op |-> "none", static |-> FailedResponse, rendered |-> FailedResponse,
            dom |-> NoDom, text |-> <<>>]

UnitInputs ==
    {[NoInput EXCEPT !.op = "discover", !.static = s, !.rendered = r] :
        s \in Responses, r \in Responses}
      \cup {[NoInput EXCEPT !.op = "extract", !.dom = d] : d \in Doms}
      \cup {[NoInput EXCEPT !.op = "clean", !.text = t] : t \in Texts}

NoOutput == [done |-> FALSE, links |-> <<>>, static |-> NoContent,
             rendered |-> NoContent, clean |-> <<>>, again |-> <<>>]

-----------------------------------------------------------------------------
(* The URLs given to the URL functions on their own *)

\* most slashes at the end of a path given to the functions
MaxTrailing == 2

RECURSIVE Slashes(_)
Slashes(k) == IF k = 0 THEN <<>> ELSE <<"/">> \o Slashes(k - 1)

RECURSIVE JoinSegments(_)
JoinSegments(segments) ==
    IF segments = <<>> THEN <<>>
    ELSE <<"/", Head(segments)>> \o JoinSegments(Tail(segments))

SegmentLists == { <<>>, <<"support">>, <<"support", "faq">>, <<"supporters">>,
                  <<"docs">>, <<"docs", "faq">>, <<"other">> }

Paths == { JoinSegments(segments) \o Slashes(k) :
             segments \in SegmentLists, k \in 0..MaxTrailing }

UrlParts == [scheme : {<<"https">>, <<"http">>},
             netloc : {<<"www.angelone.in">>, <<"example.com">>},
             path : Paths,
             query : {<<>>, <<"x=1">>},
             fragment : {<<>>, <<"top">>}]

\* the absolute URL with the given components
Unparse(parts) ==
    parts.scheme \o <<":", "/", "/">> \o parts.netloc \o parts.path
      \o (IF parts.query = <<>> THEN <<>> ELSE <<"?">> \o parts.query)
      \o (IF parts.fragment = <<>> THEN <<>> ELSE <<"#">> \o parts.fragment)

\* the paths that differ from path by at most one slash at the end
SlashVariants(path) ==
    {path, path \o <<"/">>}
      \cup (IF endswith(path, "/") THEN {SubSeq(path, 1, Len(path) - 1)} ELSE {})

\* the components of the URLs that differ from the given one only by
\* fragment, query string or one trailing slash
Variants(parts) ==
    { v \in UrlParts : /\ v.scheme = parts.scheme
                       /\ v.netloc = parts.netloc
                       /\ v.path \in SlashVariants(parts.path) }

-----------------------------------------------------------------------------
(* The URLs of the model, and the URL functions tabulated over them *)

RECURSIVE NormalizeClosure(_)
NormalizeClosure(S) ==
    IF {normalize_url(u) : u \in S} \subseteq S THEN S
    ELSE NormalizeClosure(S \cup {normalize_url(u) : u \in S})

\* every string the crawler or the functions are given: the base URLs, the
\* anchors resolved against them, the URLs built from UrlParts, and what
\* normalize_url makes of them
UrlUniverse ==
    NormalizeClosure(BaseUrls
                       \cup {urljoin(base, href) : base \in BaseUrls, href \in Anchors}
                       \cup {Unparse(parts) : parts \in UrlParts}
                       \cup {None, <<>>})

\* Normalized[u] = self.normalize_url(u)
Normalized == [u \in UrlUniverse |-> normalize_url(u)]

\* the return expression of is_support_url but its last conjunct
on_support_path(parsed) ==
    /\ parsed.netloc = <<"www.angelone.in">>
    /\ startswith(parsed.path, <<"/", "support">>)

\* OnSupportPath[u] = on_support_path(urlparse(u))
OnSupportPath == [u \in UrlUniverse |-> on_support_path(urlparse(u))]

-----------------------------------------------------------------------------
(* AngelOneWebCrawler.is_support_url *)

\* is_support_url from its normalized_url on, for a crawler whose
\* visited_urls and failed_urls are the given sets
is_support_normalized(visited, failed, normalized_url) ==
    IF ~Truthy(normalized_url) \/ normalized_url \in visited
    THEN FALSE
    ELSE /\ OnSupportPath[normalized_url]
         /\ normalized_url \notin failed

\* is_support_url for a crawler whose visited_urls and failed_urls are the
\* given sets
is_support_url_of(visited, failed, u) ==
    IF ~Truthy(u) THEN FALSE
    ELSE is_support_normalized(visited, failed, Normalized[u])

is_support_url(u) == is_support_url_of(visited_urls, failed_urls, u)

-----------------------------------------------------------------------------
(* link discovery and harvesting *)

\* SupportLinks without the is_support_url test
SupportLinks_NoScopeCheck(page_url, anchors) ==
    {Normalized[urljoin(page_url, href)] : href \in anchors}

\* the anchors of one document that pass is_support_url, normalized
\* (the loop bodies of discover_all_support_links and
\* extract_support_links_from_page)
SupportLinks(page_url, anchors) ==
    { normalized_url \in {Normalized[urljoin(page_url, href)] : href \in anchors} :
        is_support_url(normalized_url) }

\* discover_all_support_links where the rendered pass starts all_links anew
discover_all_support_links_RenderedReplaces(static, rendered) ==
    IF driver /\ rendered.ok THEN SupportLinks(base_url, rendered.anchors)
    ELSE IF static.ok THEN SupportLinks(base_url, static.anchors) ELSE {}

\* discover_all_support_links: static pass, then rendered pass if a driver
\* exists; an exception in a pass leaves all_links as it was
discover_all_support_links(static, rendered) ==
    (IF static.ok THEN SupportLinks(base_url, static.anchors) ELSE {})
      \cup (IF driver /\ rendered.ok
            THEN SupportLinks(base_url, rendered.anchors) ELSE {})

\* the normalized forms of the queue's entries:
\* [self.normalize_url(u) for u in self.url_queue]
NormalizedQueue(q) == {Normalized[q[i]] : i \in DOMAIN q}

\* crawl_all_support_pages, the body of the loop over the discovered links
OfferNormalized(q, normalized_link) ==
    IF Truthy(normalized_link) /\ normalized_link \notin NormalizedQueue(q)
    THEN Append(q, normalized_link) ELSE q

\* crawl_all_support_pages, adding the discovered links to the queue
RECURSIVE EnqueueDiscovered(_, _)
EnqueueDiscovered(q, links) ==
    IF links = <<>> THEN q
    ELSE EnqueueDiscovered(OfferNormalized(q, Normalized[Head(links)]),
                           Tail(links))

\* the order of first entry, after the entries of a queue have been noted
RECURSIVE NoteEntered(_, _)
NoteEntered(seen, q) ==
    IF q = <<>> THEN seen
    ELSE NoteEntered(IF \E i \in DOMAIN seen : seen[i] = Normalized[Head(q)]
                     THEN seen ELSE Append(seen, Normalized[Head(q)]),
                     Tail(q))

\* crawl_all_support_pages, removing duplicates from the queue
RECURSIVE UniqueQueue(_, _, _), UniqueStep(_, _, _, _)
UniqueQueue(q, seen, unique_queue) ==
    IF q = <<>> THEN unique_queue
    ELSE UniqueStep(Tail(q), seen, unique_queue, Normalized[Head(q)])

\* the body of the loop that removes duplicates
UniqueStep(rest, seen, unique_queue, normalized) ==
    IF Truthy(normalized) /\ normalized \notin seen
    THEN UniqueQueue(rest, seen \cup {normalized}, Append(unique_queue, normalized))
    ELSE UniqueQueue(rest, seen, unique_queue)

\* scrape_page_content, the body of the loop over new_links
OfferLink(q, link) ==
    IF link \notin visited_urls /\ link \notin NormalizedQueue(q)
    THEN Append(q, link) ELSE q

\* scrape_page_content, appending the new links to the queue
RECURSIVE EnqueueNew(_, _)
EnqueueNew(q, links) ==
    IF links = <<>> THEN q
    ELSE EnqueueNew(OfferLink(q, Head(links)), Tail(links))

\* scrape_page_content, the gate on the final text
LengthGate(page_url, content_text) ==
    IF content_text > 0 /\ content_text > ContentLengthFloor
    THEN [url |-> page_url, content |-> content_text,
          content_length |-> content_text]
    ELSE NoPage

\* PageContent taking the rendered text whenever there is one
PageContent_PrefersRendered(page_url, static_len, selenium_len) ==
    LengthGate(page_url,
               IF /\ static_len < RenderedFallbackFloor /\ driver
                  /\ selenium_len > 0
               THEN selenium_len ELSE static_len)

\* scrape_page_content, from the cleaned static text to the return value:
\* the rendered retry, then the length gate
PageContent(page_url, static_len, selenium_len) ==
    LengthGate(page_url,
               IF /\ static_len < RenderedFallbackFloor /\ driver
                  /\ selenium_len > 0 /\ selenium_len > static_len
               THEN selenium_len ELSE static_len)

\* scrape_with_selenium: "" without a driver or on any exception, else the
\* cleaned text of the rendered page
scrape_with_selenium(render) ==
    IF ~driver \/ render.failed THEN 0 ELSE render.length

\* the condition under which scrape_page_content calls scrape_with_selenium
TriesSelenium(static_len) == static_len < RenderedFallbackFloor /\ driver

\* what a call of scrape_page_content that does not raise goes through, for
\* the document and the Chrome session it meets
Observed(doc, render) ==
    [called |-> TRUE, raised |-> FALSE,
     has_element |-> doc.element # "none",
     static_len |-> doc.length,
     tried |-> TriesSelenium(doc.length),
     render_failed |-> TriesSelenium(doc.length) /\ render.failed,
     rendered_len |-> IF TriesSelenium(doc.length)
                      THEN scrape_with_selenium(render) ELSE 0,
     harvested |-> 0, nav_only |-> {}]

\* the return value of a call that does not raise, with what it went through
Extraction(page_url, doc, render) ==
    [page |-> PageContent(page_url, doc.length, scrape_with_selenium(render)),
     seen |-> Observed(doc, render)]

\* how a call of scrape_page_content ended
Outcome(raised, page) ==
    IF raised THEN "error" ELSE IF page = NoPage THEN "insufficient" ELSE "page"

\* total_content_size counting the pages in place of their characters
total_content_size_CountsPages(data) == Len(data)

\* sum(len(item['content']) for item in self.scraped_data)
RECURSIVE total_content_size(_)
total_content_size(data) ==
    IF data = <<>> THEN 0
    ELSE Head(data).content + total_content_size(Tail(data))

-----------------------------------------------------------------------------
(* discover_all_support_links, the scroll loop of the rendered pass *)

\* document.body.scrollHeight is kept modulo HeightRange: the loop compares
\* two consecutive measurements only, and these differ by at most one step
HeightRange == 6

\* most times a page that stops growing grows when scrolled to its bottom
MaxGrowth == 2

\* growth of a page that loads more content on every scroll
Endless == 0 - 1

\* the scroll loop before the rendered pass has reached it
NoScroll == [pc |-> "idle", height |-> 0, growth |-> 0, last_height |-> 0,
             new_height |-> 0]

\* the loop at line 121, for every page: its height, and how many more times
\* a scroll to the bottom makes it grow
ScrollStarts ==
    {[pc |-> "scroll", height |-> h, growth |-> g, last_height |-> h,
      new_height |-> 0] : h \in 0..(HeightRange - 1),
                          g \in (0..MaxGrowth) \cup {Endless}}

\* the page after window.scrollTo(0, document.body.scrollHeight) and the pause
Scrolled(s) ==
    IF s.growth = 0 THEN s
    ELSE [s EXCEPT !.height = (s.height + 1) % HeightRange,
                   !.growth = IF s.growth = Endless THEN Endless
                              ELSE s.growth - 1]

-----------------------------------------------------------------------------
(* VectorDBManager (vector_db_manager.py) *)

\* most databases written to persist_directory in one run
MaxDatabases == 3

\* most documents the data files hold
MaxDocuments == 2

\* what a call of a method of the manager did: whether it read the data
\* files, whether it removed the database on disk, what it returned and
\* whether an exception left it
NoManagerCall == [op |-> "none", force_recreate |-> FALSE, read_files |-> FALSE,
                  removed |-> FALSE, result |-> "none", raised |-> FALSE]

ManagerCall(op, result) == [NoManagerCall EXCEPT !.op = op, !.result = result]

\* the manager as constructed: vector_store is None (FALSE), documents is
\* empty; db is the database on disk, 0 when there is no chroma.sqlite3, else
\* the number of the database, written counts the databases written so far
NoManager == [vector_store |-> FALSE, documents |-> 0, db |-> 0, written |-> 0,
              call |-> NoManagerCall]

\* a manager constructed over an empty directory or over an earlier database
Managers == {NoManager, [NoManager EXCEPT !.db = 1, !.written = 1]}

\* _database_exists
database_exists(m) == m.db # 0

\* create_vector_store, the branch that loads the existing database:
\* Chroma(...) gives the store, or raises and None is returned
LoadExisting(m, call) ==
    {[m EXCEPT !.vector_store = TRUE, !.call = [call EXCEPT !.result = "store"]],
     [m EXCEPT !.call = [call EXCEPT !.result = "None"]]}

\* create_vector_store from _remove_existing_database on: the old database
\* is removed if force_recreate is set and one exists, then
\* Chroma.from_documents writes the new one; either may raise, and None is
\* returned
BuildNew(m, call) ==
    IF call.force_recreate /\ database_exists(m)
    THEN {[m EXCEPT !.vector_store = TRUE, !.db = m.written + 1,
                    !.written = m.written + 1,
                    !.call = [call EXCEPT !.removed = TRUE, !.result = "store"]],
          [m EXCEPT !.db = 0,
                    !.call = [call EXCEPT !.removed = TRUE, !.result = "None"]],
          [m EXCEPT !.call = [call EXCEPT !.result = "None"]]}
    ELSE {[m EXCEPT !.vector_store = TRUE, !.db = m.written + 1,
                    !.written = m.written + 1,
                    !.call = [call EXCEPT !.result = "store"]],
          [m EXCEPT !.call = [call EXCEPT !.result = "None"]]}

\* create_vector_store removing the old database before it looks at the
\* documents
create_vector_store_RemovesFirst(m, force_recreate, loaded) ==
    IF ~force_recreate /\ database_exists(m)
    THEN LoadExisting(m, [ManagerCall("create", "none")
                            EXCEPT !.force_recreate = force_recreate])
    ELSE IF loaded = 0
    THEN {[m EXCEPT !.documents = 0, !.db = 0,
                    !.call = [ManagerCall("create", "None")
                                EXCEPT !.force_recreate = force_recreate,
                                       !.read_files = TRUE,
                                       !.removed = database_exists(m)]]}
    ELSE BuildNew([m EXCEPT !.documents = loaded],
                  [ManagerCall("create", "none")
                     EXCEPT !.force_recreate = force_recreate,
                            !.read_files = TRUE])

\* create_vector_store(force_recreate=...), when load_web_data and
\* load_pdf_data give `loaded` documents together
create_vector_store(m, force_recreate, loaded) ==
    IF ~force_recreate /\ database_exists(m)
    THEN LoadExisting(m, [ManagerCall("create", "none")
                            EXCEPT !.force_recreate = force_recreate])
    ELSE IF loaded = 0
    THEN {[m EXCEPT !.documents = 0,
                    !.call = [ManagerCall("create", "None")
                                EXCEPT !.force_recreate = force_recreate,
                                       !.read_files = TRUE]]}
    ELSE BuildNew([m EXCEPT !.documents = loaded],
                  [ManagerCall("create", "none")
                     EXCEPT !.force_recreate = force_recreate,
                            !.read_files = TRUE])

\* search_similar and search_with_score: [] without a store, else the
\* results of the store, [] if the search raises
search(m, op) ==
    IF ~m.vector_store THEN {[m EXCEPT !.call = ManagerCall(op, "[]")]}
    ELSE {[m EXCEPT !.call = ManagerCall(op, "results")],
          [m EXCEPT !.call = ManagerCall(op, "[]")]}

\* get_retriever with no test of vector_store: as_retriever is read from None
get_retriever_NoGuard(m) ==
    IF ~m.vector_store
    THEN {[m EXCEPT !.call = [ManagerCall("get_retriever", "none")
                                EXCEPT !.raised = TRUE]]}
    ELSE {[m EXCEPT !.call = ManagerCall("get_retriever", "retriever")]}

\* get_retriever: None without a store, else the retriever of the store
get_retriever(m) ==
    IF ~m.vector_store THEN {[m EXCEPT !.call = ManagerCall("get_retriever", "None")]}
    ELSE {[m EXCEPT !.call = ManagerCall("get_retriever", "retriever")]}

\* add_documents: False without a store, else the documents are written to
\* the database, False if that raises
add_documents(m) ==
    IF ~m.vector_store THEN {[m EXCEPT !.call = ManagerCall("add_documents", "False")]}
    ELSE {[m EXCEPT !.db = m.written + 1, !.written = m.written + 1,
                    !.call = ManagerCall("add_documents", "True")],
          [m EXCEPT !.call = ManagerCall("add_documents", "False")]}

\* get_collection_info: the status of the collection, or that there is none
get_collection_info(m) ==
    IF ~m.vector_store
    THEN {[m EXCEPT !.call = ManagerCall("get_collection_info", "not initialized")]}
    ELSE {[m EXCEPT !.call = ManagerCall("get_collection_info", "active")],
          [m EXCEPT !.call = ManagerCall("get_collection_info", "error")]}

\* delete_collection: the directory is removed and the store forgotten, or
\* rmtree raises and False is returned
delete_collection(m) ==
    {[m EXCEPT !.db = 0, !.vector_store = FALSE, !.documents = 0,
               !.call = [ManagerCall("delete_collection", "True")
                           EXCEPT !.removed = database_exists(m)]],
     [m EXCEPT !.call = ManagerCall("delete_collection", "False")]}

-----------------------------------------------------------------------------
(* RAGService (rag_service.py) *)

\* most documents the retriever gives for a question
MaxRetrieved == 3

\* k of generate_answer as ask_question calls it (max_results)
max_results == 10

\* the number of retrieved documents from which confidence is 'medium'
MediumConfidenceFloor == 3

\* what self.retriever.invoke(question) does: it raises, or it gives documents
Retrievals ==
    {[failed |-> TRUE, found |-> 0]} \cup [failed : {FALSE}, found : 0..MaxRetrieved]

\* retrieve_documents: raises without a retriever; [] if the retriever
\* raises; else the first k documents, formatted
retrieve_documents(retriever, retrieval, k) ==
    IF ~retriever THEN [raised |-> TRUE, docs |-> 0]
    ELSE IF retrieval.failed THEN [raised |-> FALSE, docs |-> 0]
    ELSE [raised |-> FALSE,
          docs |-> IF retrieval.found < k THEN retrieval.found ELSE k]

\* the value generate_answer gives when no call has been made
NoAnswer == [returned |-> FALSE, raised |-> FALSE, retrieval_count |-> 0,
             sources |-> 0, confidence |-> "none", error |-> FALSE,
             chain_invoked |-> FALSE, failure |-> FALSE, retrieved |-> 0]

\* generate_answer, the return value of the except branch
ErrorAnswer ==
    [NoAnswer EXCEPT !.returned = TRUE, !.confidence = "low", !.error = TRUE,
                     !.failure = TRUE]

\* generate_answer, the return value when nothing was retrieved
EmptyAnswer(failed) ==
    [NoAnswer EXCEPT !.returned = TRUE, !.confidence = "low", !.failure = failed]

\* generate_answer from the chain on: the chain raises, or its answer is
\* returned with the sources
ChainAnswer(docs, chain_ok) ==
    IF ~chain_ok THEN [ErrorAnswer EXCEPT !.chain_invoked = TRUE, !.retrieved = docs]
    ELSE [NoAnswer EXCEPT !.returned = TRUE, !.chain_invoked = TRUE,
                          !.retrieved = docs,
                          !.retrieval_count = docs, !.sources = docs,
                          !.confidence = IF docs >= MediumConfidenceFloor
                                         THEN "medium" ELSE "low"]

\* generate_answer that gives the chain an empty context when nothing was
\* retrieved
generate_answer_NoEmptyCheck(retriever, retrieval, chain_ok, k) ==
    IF retrieve_documents(retriever, retrieval, k).raised THEN ErrorAnswer
    ELSE [ChainAnswer(retrieve_documents(retriever, retrieval, k).docs, chain_ok)
            EXCEPT !.failure = @ \/ retrieval.failed]

\* generate_answer(question, k, temperature)
generate_answer(retriever, retrieval, chain_ok, k) ==
    IF retrieve_documents(retriever, retrieval, k).raised THEN ErrorAnswer
    ELSE IF retrieve_documents(retriever, retrieval, k).docs = 0
    THEN EmptyAnswer(retrieval.failed)
    ELSE ChainAnswer(retrieve_documents(retriever, retrieval, k).docs, chain_ok)

-----------------------------------------------------------------------------
(* views.py *)

\* most requests in one run
MaxRequests == 3

\* what a request went through: whether get_rag_service was called and
\* whether the constructor of RAGService raised in it, what generate_answer
\* returned, whether ChatHistory.objects.create was called, the status of
\* the response
NoRequest == [op |-> "none", valid |-> FALSE, asked_service |-> FALSE,
              init_raised |-> FALSE, answer |-> NoAnswer, created |-> FALSE,
              status |-> 0]

\* the module as imported: rag_service is None (0), else the number of the
\* construction that made the instance; attempts and constructed count the
\* calls of RAGService(...) and those that returned, served the calls of
\* get_rag_service that returned an instance; history counts the
\* ChatHistory records, creates the calls of ChatHistory.objects.create
NoApi == [rag_service |-> 0, attempts |-> 0, constructed |-> 0, served |-> 0,
          history |-> 0, creates |-> 0, requests |-> 0, req |-> NoRequest]

\* get_rag_service that constructs a RAGService on every call
get_rag_service_AlwaysConstructs(a, init_ok) ==
    IF init_ok
    THEN [a EXCEPT !.rag_service = a.attempts + 1, !.attempts = a.attempts + 1,
                   !.constructed = a.constructed + 1, !.served = a.served + 1,
                   !.req = [a.req EXCEPT !.asked_service = TRUE]]
    ELSE [a EXCEPT !.attempts = a.attempts + 1,
                   !.req = [a.req EXCEPT !.asked_service = TRUE,
                                         !.init_raised = TRUE]]

\* get_rag_service(): the instance of the holder, or a new RAGService if the
\* holder is empty; the exception of a constructor that fails is raised again
get_rag_service(a, init_ok) ==
    IF a.rag_service # 0
    THEN [a EXCEPT !.served = a.served + 1,
                   !.req = [a.req EXCEPT !.asked_service = TRUE]]
    ELSE IF init_ok
    THEN [a EXCEPT !.rag_service = a.attempts + 1, !.attempts = a.attempts + 1,
                   !.constructed = a.constructed + 1, !.served = a.served + 1,
                   !.req = [a.req EXCEPT !.asked_service = TRUE]]
    ELSE [a EXCEPT !.attempts = a.attempts + 1,
                   !.req = [a.req EXCEPT !.asked_service = TRUE,
                                         !.init_raised = TRUE]]

\* a request as it comes in
Incoming(a, op, valid) ==
    [a EXCEPT !.requests = a.requests + 1,
              !.req = [NoRequest EXCEPT !.op = op, !.valid = valid]]

\* the response of a view whose call of get_rag_service raised
Failed(a) == [a EXCEPT !.req = [a.req EXCEPT !.status = 500]]

\* ask_question from the save on: ChatHistory.objects.create, then 200, or
\* 500 if the save raises
SaveAndRespond(a, answer, save_ok) ==
    [a EXCEPT !.creates = a.creates + 1,
              !.history = IF save_ok THEN a.history + 1 ELSE a.history,
              !.req = [a.req EXCEPT !.answer = answer, !.created = TRUE,
                                    !.status = IF save_ok THEN 200 ELSE 500]]

\* ask_question that answers without saving the exchange
ask_question_NoSave(a, valid, init_ok, retrieval, chain_ok, save_ok) ==
    IF ~valid
    THEN [Incoming(a, "ask", valid) EXCEPT !.req = [@ EXCEPT !.status = 400]]
    ELSE IF get_rag_service(Incoming(a, "ask", valid), init_ok).req.init_raised
    THEN Failed(get_rag_service(Incoming(a, "ask", valid), init_ok))
    ELSE [get_rag_service(Incoming(a, "ask", valid), init_ok)
            EXCEPT !.req = [@ EXCEPT !.answer = generate_answer(TRUE, retrieval,
                                                   chain_ok, max_results),
                                     !.status = 200]]

\* ask_question(request)
ask_question(a, valid, init_ok, retrieval, chain_ok, save_ok) ==
    IF ~valid
    THEN [Incoming(a, "ask", valid) EXCEPT !.req = [@ EXCEPT !.status = 400]]
    ELSE IF get_rag_service(Incoming(a, "ask", valid), init_ok).req.init_raised
    THEN Failed(get_rag_service(Incoming(a, "ask", valid), init_ok))
    ELSE SaveAndRespond(get_rag_service(Incoming(a, "ask", valid), init_ok),
                        generate_answer(TRUE, retrieval, chain_ok, max_results),
                        save_ok)

\* service_status(request)
service_status(a, init_ok) ==
    IF get_rag_service(Incoming(a, "status", TRUE), init_ok).req.init_raised
    THEN Failed(get_rag_service(Incoming(a, "status", TRUE), init_ok))
    ELSE [get_rag_service(Incoming(a, "status", TRUE), init_ok)
            EXCEPT !.req = [@ EXCEPT !.status = 200]]

\* search_documents(request)
search_documents(a, valid, init_ok) ==
    IF ~valid
    THEN [Incoming(a, "search", valid) EXCEPT !.req = [@ EXCEPT !.status = 400]]
    ELSE IF get_rag_service(Incoming(a, "search", valid), init_ok).req.init_raised
    THEN Failed(get_rag_service(Incoming(a, "search", valid), init_ok))
    ELSE [get_rag_service(Incoming(a, "search", valid), init_ok)
            EXCEPT !.req = [@ EXCEPT !.status = 200]]

\* the services before any is used
SvcInit ==
    /\ scroll = NoScroll
    /\ mgr = NoManager
    /\ api = NoApi

-----------------------------------------------------------------------------
(* AngelOneWebCrawler.__init__; main constructs the crawler with the default
   base_url *)

\* the crawler constructed with the given base_url
CrawlerInit(base) ==
    /\ base_url = base
    /\ driver \in BOOLEAN
    /\ visited_urls = {}
    /\ scraped_data = <<>>
    /\ url_queue = <<base_url>>
    /\ failed_urls = {}
    /\ scraped_count = 0
    /\ url = None
    /\ content = NoPage
    /\ pc = "start"
    /\ summary = <<>>
    /\ quits = 0
    /\ calls = {}
    /\ extract = NoCall
    /\ delays = 0
    /\ entered = NoteEntered(<<>>, url_queue)

Init ==
    /\ CrawlerInit(DefaultBase)
    /\ fn_parts = NoParts
    /\ fn_url = None
    /\ fn_out = <<>>
    /\ fn_alt = <<>>
    /\ fn_scope = <<>>
    /\ unit_in = NoInput
    /\ unit_out = NoOutput
    /\ SvcInit

(* crawl_all_support_pages up to the driver loop *)
Discover ==
    /\ pc = "start"
    /\ \E all_links \in {discover_all_support_links(static, rendered) :
                             static \in Responses, rendered \in Responses} :
         \E discovered_links \in Orders(all_links) :
            \E q \in {UniqueQueue(EnqueueDiscovered(url_queue, discovered_links),
                                  {}, <<>>)} :
               /\ url_queue' = q
               /\ entered' = NoteEntered(entered, q)
    /\ scraped_count' = 0
    /\ pc' = "loop"
    /\ UNCHANGED <<base_url, driver, visited_urls, failed_urls, scraped_data,
                   url, content, summary, quits, delays, fn_vars, obs_vars>>

\* LoopTest without the check against visited_urls
LoopTest_NoVisitedCheck ==
    /\ pc = "loop"
    /\ IF url_queue # <<>> /\ scraped_count < MaxPages
       THEN /\ url_queue' = Tail(url_queue)
            /\ url' = Normalized[Head(url_queue)]
            /\ pc' = "scrape"
       ELSE /\ pc' = "done"
            /\ UNCHANGED <<url_queue, url>>
    /\ UNCHANGED <<base_url, driver, visited_urls, failed_urls, scraped_data,
                   scraped_count, content, summary, quits, fn_vars, obs_vars, order_vars>>

\* LoopTest reading the head of the queue without popleft
LoopTest_NoPop ==
    /\ pc = "loop"
    /\ IF url_queue # <<>> /\ scraped_count < MaxPages
       THEN /\ url' = Normalized[Head(url_queue)]
            /\ pc' = IF url' \in visited_urls THEN "loop" ELSE "scrape"
            /\ UNCHANGED url_queue
       ELSE /\ pc' = "done"
            /\ UNCHANGED <<url_queue, url>>
    /\ UNCHANGED <<base_url, driver, visited_urls, failed_urls, scraped_data,
                   scraped_count, content, summary, quits, fn_vars, obs_vars, order_vars>>

\* LoopTest with the cap tested by <= in place of <
LoopTest_OffByOne ==
    /\ pc = "loop"
    /\ IF url_queue # <<>> /\ scraped_count <= MaxPages
       THEN /\ url_queue' = Tail(url_queue)
            /\ url' = Normalized[Head(url_queue)]
            /\ pc' = IF url' \in visited_urls THEN "loop" ELSE "scrape"
       ELSE /\ pc' = "done"
            /\ UNCHANGED <<url_queue, url>>
    /\ UNCHANGED <<base_url, driver, visited_urls, failed_urls, scraped_data,
                   scraped_count, content, summary, quits, fn_vars, obs_vars, order_vars>>

\* LoopTest popping from the right end of the deque
LoopTest_PopsLast ==
    /\ pc = "loop"
    /\ IF url_queue # <<>> /\ scraped_count < MaxPages
       THEN /\ url_queue' = SubSeq(url_queue, 1, Len(url_queue) - 1)
            /\ url' = Normalized[url_queue[Len(url_queue)]]
            /\ pc' = IF url' \in visited_urls THEN "loop" ELSE "scrape"
       ELSE /\ pc' = "done"
            /\ UNCHANGED <<url_queue, url>>
    /\ UNCHANGED <<base_url, driver, visited_urls, failed_urls, scraped_data,
                   scraped_count, content, summary, quits, fn_vars, obs_vars,
                   order_vars>>

(* the loop test, popleft and the visited check *)
LoopTest ==
    /\ pc = "loop"
    /\ IF url_queue # <<>> /\ scraped_count < MaxPages
       THEN /\ url_queue' = Tail(url_queue)
            /\ url' = Normalized[Head(url_queue)]
            /\ pc' = IF url' \in visited_urls THEN "loop" ELSE "scrape"
       ELSE /\ pc' = "done"
            /\ UNCHANGED <<url_queue, url>>
    /\ UNCHANGED <<base_url, driver, visited_urls, failed_urls, scraped_data,
                   scraped_count, content, summary, quits, fn_vars, obs_vars, order_vars>>

\* where the anchors of a fetched document stand: inside nav, header or footer
\* elements ("chrome"), or outside every element that line 200 removes
Placements == {"chrome", "content"}

\* the anchors left in the soup once script, style, nav, footer and header
\* elements were decomposed
AfterRemoval(anchors, placement) ==
    IF placement = "chrome" THEN {} ELSE anchors

\* HarvestSoup reading the soup after the unwanted elements were removed
HarvestSoup_AfterRemoval(anchors, placement) == AfterRemoval(anchors, placement)

\* the anchors of the soup that extract_support_links_from_page is given: the
\* parsed response, from which nothing was removed yet
HarvestSoup(anchors, placement) == anchors

\* the links that are neither visited nor in the queue when the page is fetched
NewLinks(links) ==
    {link \in links : link \notin visited_urls
                       /\ link \notin NormalizedQueue(url_queue)}

\* the queue after the links of the fetched document were harvested, for every
\* document and every order of new_links, with the new in-scope links of the
\* document that stand only in elements removed afterwards
Harvests ==
    UNION {UNION {{[queue |-> EnqueueNew(url_queue, new_links),
                    nav_only |-> NewLinks(SupportLinks(url,
                                     anchors \ AfterRemoval(anchors, placement)))] :
                     new_links \in Orders(SupportLinks(url,
                                              HarvestSoup(anchors, placement)))} :
                   placement \in Placements} :
             anchors \in AnchorSets}

\* Extractions where an exception of the rendered fetch is not caught in
\* scrape_with_selenium and ends the call
Extractions_RenderErrorRaises ==
    {IF TriesSelenium(doc.length) /\ render.failed
     THEN [page |-> NoPage, seen |-> [Observed(doc, render) EXCEPT !.raised = TRUE]]
     ELSE Extraction(url, doc, render) : doc \in Documents, render \in RenderResults}
      \cup {[page |-> NoPage, seen |-> [NoCall EXCEPT !.called = TRUE, !.raised = TRUE]]}

\* the ways the rest of scrape_page_content may end: with an exception, or with
\* the return value the document and the Chrome session give
Extractions ==
    {Extraction(url, doc, render) : doc \in Documents, render \in RenderResults}
      \cup {[page |-> NoPage, seen |-> [NoCall EXCEPT !.called = TRUE, !.raised = TRUE]]}

\* FetchPage whose except branch does not add the URL to failed_urls
FetchPage_NoMarkFailed ==
    /\ pc = "scrape"
    /\ \/ /\ content' = NoPage
          /\ extract' = [NoCall EXCEPT !.called = TRUE, !.raised = TRUE]
          /\ calls' = calls \cup {<<url, "error">>}
          /\ pc' = "record"
          /\ UNCHANGED <<url_queue, failed_urls, entered>>
       \/ /\ \E h \in Harvests :
                /\ url_queue' = h.queue
                /\ extract' = [NoCall EXCEPT !.called = TRUE,
                                             !.harvested = Len(h.queue) - Len(url_queue),
                                             !.nav_only = h.nav_only]
                /\ entered' = NoteEntered(entered, h.queue)
          /\ calls' = calls \cup {<<url, "running">>}
          /\ pc' = "extract"
          /\ UNCHANGED <<failed_urls, content>>
    /\ delays' = 0
    /\ UNCHANGED <<base_url, driver, visited_urls, scraped_data, scraped_count,
                   url, summary, quits, fn_vars>>

(* scrape_page_content(normalized_url), from the fetch to the harvesting of
   the links of the document *)
FetchPage ==
    /\ pc = "scrape"
    /\ \/ /\ failed_urls' = failed_urls \cup {url}
          /\ content' = NoPage
          /\ extract' = [NoCall EXCEPT !.called = TRUE, !.raised = TRUE]
          /\ calls' = calls \cup {<<url, "error">>}
          /\ pc' = "record"
          /\ UNCHANGED <<url_queue, entered>>
       \/ /\ \E h \in Harvests :
                /\ url_queue' = h.queue
                /\ extract' = [NoCall EXCEPT !.called = TRUE,
                                             !.harvested = Len(h.queue) - Len(url_queue),
                                             !.nav_only = h.nav_only]
                /\ entered' = NoteEntered(entered, h.queue)
          /\ calls' = calls \cup {<<url, "running">>}
          /\ pc' = "extract"
          /\ UNCHANGED <<failed_urls, content>>
    /\ delays' = 0
    /\ UNCHANGED <<base_url, driver, visited_urls, scraped_data, scraped_count,
                   url, summary, quits, fn_vars>>

\* ExtractContent adding the URL to failed_urls also when the text is too short
ExtractContent_InsufficientFails ==
    /\ pc = "extract"
    /\ \E r \in Extractions :
          /\ content' = r.page
          /\ extract' = [r.seen EXCEPT !.harvested = extract.harvested,
                                       !.nav_only = extract.nav_only]
          /\ failed_urls' = IF r.seen.raised \/ r.page = NoPage
                            THEN failed_urls \cup {url}
                            ELSE failed_urls
          /\ calls' = (calls \ {<<url, "running">>})
                         \cup {<<url, Outcome(r.seen.raised, r.page)>>}
    /\ pc' = "record"
    /\ UNCHANGED <<base_url, driver, visited_urls, url_queue, scraped_data,
                   scraped_count, url, summary, quits, fn_vars, order_vars>>

(* scrape_page_content(normalized_url), from the cleaning of the document to
   the return *)
ExtractContent ==
    /\ pc = "extract"
    /\ \E r \in Extractions :
          /\ content' = r.page
          /\ extract' = [r.seen EXCEPT !.harvested = extract.harvested,
                                       !.nav_only = extract.nav_only]
          /\ failed_urls' = IF r.seen.raised THEN failed_urls \cup {url}
                            ELSE failed_urls
          /\ calls' = (calls \ {<<url, "running">>})
                         \cup {<<url, Outcome(r.seen.raised, r.page)>>}
    /\ pc' = "record"
    /\ UNCHANGED <<base_url, driver, visited_urls, url_queue, scraped_data,
                   scraped_count, url, summary, quits, fn_vars, order_vars>>

\* Record putting the new page in front of the collected ones
Record_Prepends ==
    /\ pc = "record"
    /\ IF content # NoPage
       THEN /\ scraped_data' = <<content>> \o scraped_data
            /\ scraped_count' = scraped_count + 1
       ELSE UNCHANGED <<scraped_data, scraped_count>>
    /\ extract' = NoCall
    /\ pc' = "mark"
    /\ UNCHANGED <<base_url, driver, visited_urls, failed_urls, url_queue,
                   url, content, summary, quits, calls, fn_vars, order_vars>>

(* if content: append it and count it *)
Record ==
    /\ pc = "record"
    /\ IF content # NoPage
       THEN /\ scraped_data' = Append(scraped_data, content)
            /\ scraped_count' = scraped_count + 1
       ELSE UNCHANGED <<scraped_data, scraped_count>>
    /\ extract' = NoCall
    /\ pc' = "mark"
    /\ UNCHANGED <<base_url, driver, visited_urls, failed_urls, url_queue,
                   url, content, summary, quits, calls, fn_vars, order_vars>>

\* MarkVisited without the add
MarkVisited_Forgets ==
    /\ pc = "mark"
    /\ pc' = "sleep"
    /\ UNCHANGED <<base_url, driver, visited_urls, failed_urls, url_queue,
                   scraped_data, scraped_count, url, content, summary, quits,
                   fn_vars, obs_vars, order_vars>>

\* MarkVisited with the add done for scraped pages only
MarkVisited_OnlyScraped ==
    /\ pc = "mark"
    /\ visited_urls' = IF content # NoPage THEN visited_urls \cup {url}
                       ELSE visited_urls
    /\ pc' = "sleep"
    /\ UNCHANGED <<base_url, driver, failed_urls, url_queue, scraped_data,
                   scraped_count, url, content, summary, quits, fn_vars, obs_vars, order_vars>>

\* MarkVisited going back to the loop test without the delay when no page
\* was scraped
MarkVisited_DelaysOnlyPages ==
    /\ pc = "mark"
    /\ visited_urls' = visited_urls \cup {url}
    /\ pc' = IF content = NoPage THEN "loop" ELSE "sleep"
    /\ UNCHANGED <<base_url, driver, failed_urls, url_queue, scraped_data,
                   scraped_count, url, content, summary, quits, fn_vars, obs_vars,
                   order_vars>>

\* MarkVisited leaving out the URLs whose fetch raised
MarkVisited_SkipsFailed ==
    /\ pc = "mark"
    /\ visited_urls' = IF url \in failed_urls THEN visited_urls
                       ELSE visited_urls \cup {url}
    /\ pc' = "sleep"
    /\ UNCHANGED <<base_url, driver, failed_urls, url_queue, scraped_data,
                   scraped_count, url, content, summary, quits, fn_vars, obs_vars,
                   order_vars>>

(* self.visited_urls.add(normalized_url) *)
MarkVisited ==
    /\ pc = "mark"
    /\ visited_urls' = visited_urls \cup {url}
    /\ pc' = "sleep"
    /\ UNCHANGED <<base_url, driver, failed_urls, url_queue, scraped_data,
                   scraped_count, url, content, summary, quits, fn_vars, obs_vars, order_vars>>

(* time.sleep(1), then back to the loop test *)
Sleep ==
    /\ pc = "sleep"
    /\ delays' = delays + 1
    /\ pc' = "loop"
    /\ UNCHANGED <<base_url, driver, visited_urls, failed_urls, url_queue,
                   scraped_data, scraped_count, url, content, summary, quits,
                   entered, fn_vars, obs_vars>>

\* the summary save_data builds from the state of the crawler
CrawlSummary ==
    [total_pages_scraped |-> Len(scraped_data),
     total_content_size  |-> total_content_size(scraped_data),
     failed_urls_count   |-> Cardinality(failed_urls),
     support_pages       |-> scraped_data,
     failed_urls         |-> failed_urls]

(* save_data, called by main after the crawl returned: the summary is written,
   or the write raises and save_data prints the error *)
SaveData ==
    /\ pc = "done"
    /\ \E written \in BOOLEAN :
          summary' = IF written THEN Append(summary, CrawlSummary) ELSE summary
    /\ pc' = "saved"
    /\ UNCHANGED <<base_url, driver, visited_urls, failed_urls, url_queue,
                   scraped_data, scraped_count, url, content, quits, fn_vars, obs_vars, order_vars>>

\* Interrupt with close() called at the end of the try block, not in finally
Interrupt_SkipsClose ==
    /\ pc \in {"start", "loop", "scrape", "extract", "record", "mark", "sleep",
              "done"}
    /\ pc' = "closed"
    /\ UNCHANGED <<base_url, driver, visited_urls, failed_urls, url_queue,
                   scraped_data, scraped_count, url, content, summary, quits,
                   fn_vars, obs_vars, order_vars>>

(* KeyboardInterrupt raised while main is inside its try block *)
Interrupt ==
    /\ pc \in {"start", "loop", "scrape", "extract", "record", "mark", "sleep",
              "done"}
    /\ pc' = "interrupted"
    /\ UNCHANGED <<base_url, driver, visited_urls, failed_urls, url_queue,
                   scraped_data, scraped_count, url, content, summary, quits,
                   fn_vars, obs_vars, order_vars>>

(* finally: scraper.close() *)
Close ==
    /\ pc \in {"saved", "interrupted"}
    /\ quits' = IF driver THEN quits + 1 ELSE quits
    /\ pc' = "closed"
    /\ UNCHANGED <<base_url, driver, visited_urls, failed_urls, url_queue,
                   scraped_data, scraped_count, url, content, summary, fn_vars, obs_vars, order_vars>>

\* the steps main takes by itself
Run ==
    \/ Discover
    \/ LoopTest
    \/ FetchPage
    \/ ExtractContent
    \/ Record
    \/ MarkVisited
    \/ Sleep
    \/ SaveData
    \/ Close

Next ==
    \/ Run
    \/ Interrupt

Spec == Init /\ [][Next]_vars

\* the interpreter keeps running main: a step main can take is taken; nothing
\* makes the operator interrupt it
FairSpec == Spec /\ WF_vars(Run)

-----------------------------------------------------------------------------
(* The URL functions on their own: a crawler as constructed is given a URL *)

\* most calls of normalize_url in a row, each on the result before
MaxApply == 2

FnInit ==
    /\ \E base \in BaseUrls : CrawlerInit(base)
    /\ \/ fn_parts \in UrlParts /\ fn_url = Unparse(fn_parts)
       \/ fn_parts = NoParts /\ fn_url \in {None, <<>>}
    /\ fn_out = <<>>
    /\ fn_alt = <<>>
    /\ fn_scope = <<>>
    /\ unit_in = NoInput
    /\ unit_out = NoOutput
    /\ SvcInit

(* normalize_url, first of the URL, then of its own result *)
ApplyNormalize ==
    /\ Len(fn_out) < MaxApply
    /\ fn_out' = Append(fn_out, normalize_url(IF fn_out = <<>> THEN fn_url
                                              ELSE fn_out[Len(fn_out)]))
    /\ UNCHANGED <<crawl_vars, fn_parts, fn_url, fn_alt, fn_scope, unit_vars, svc_vars>>

(* normalize_url of a URL that differs from the given one only by fragment,
   query string or one trailing slash *)
ApplyNormalizeVariant ==
    /\ fn_parts # NoParts
    /\ fn_alt = <<>>
    /\ \E v \in Variants(fn_parts) :
          fn_alt' = <<[parts |-> v, normalized |-> normalize_url(Unparse(v))]>>
    /\ UNCHANGED <<crawl_vars, fn_parts, fn_url, fn_out, fn_scope, unit_vars, svc_vars>>

(* is_support_url of the URL *)
ApplyIsSupportUrl ==
    /\ fn_scope = <<>>
    /\ fn_scope' = <<is_support_url(fn_url)>>
    /\ UNCHANGED <<crawl_vars, fn_parts, fn_url, fn_out, fn_alt, unit_vars, svc_vars>>

FnNext ==
    \/ ApplyNormalize
    \/ ApplyNormalizeVariant
    \/ ApplyIsSupportUrl

FnSpec == FnInit /\ [][FnNext]_vars

UnitInit ==
    /\ CrawlerInit(DefaultBase)
    /\ fn_parts = NoParts
    /\ fn_url = None
    /\ fn_out = <<>>
    /\ fn_alt = <<>>
    /\ fn_scope = <<>>
    /\ unit_in \in UnitInputs
    /\ unit_out = NoOutput
    /\ SvcInit

(* discover_all_support_links(): list(all_links), in any order of the set *)
ApplyDiscover ==
    /\ unit_in.op = "discover"
    /\ ~unit_out.done
    /\ \E links \in Orders(discover_all_support_links(unit_in.static,
                                                      unit_in.rendered)) :
          unit_out' = [NoOutput EXCEPT !.done = TRUE, !.links = links]
    /\ UNCHANGED <<crawl_vars, url_vars, unit_in, svc_vars>>

(* the extraction steps of scrape_page_content and of scrape_with_selenium,
   on the same document *)
ApplyExtract ==
    /\ unit_in.op = "extract"
    /\ ~unit_out.done
    /\ unit_out' = [NoOutput EXCEPT !.done = TRUE,
                                    !.static = StaticContent(unit_in.dom),
                                    !.rendered = RenderedContent(unit_in.dom)]
    /\ UNCHANGED <<crawl_vars, url_vars, unit_in, svc_vars>>

(* clean_text(text), and clean_text of its result *)
ApplyClean ==
    /\ unit_in.op = "clean"
    /\ ~unit_out.done
    /\ unit_out' = [NoOutput EXCEPT !.done = TRUE,
                                    !.clean = clean_text(unit_in.text),
                                    !.again = clean_text(clean_text(unit_in.text))]
    /\ UNCHANGED <<crawl_vars, url_vars, unit_in, svc_vars>>

UnitNext ==
    \/ ApplyDiscover
    \/ ApplyExtract
    \/ ApplyClean

UnitSpec == UnitInit /\ [][UnitNext]_vars

-----------------------------------------------------------------------------
(* The scroll loop on its own: a crawler with a Chrome session has loaded the
   seed page and measured its height *)

\* the variables of the crawler and of its functions as constructed
Idle ==
    /\ CrawlerInit(DefaultBase)
    /\ fn_parts = NoParts
    /\ fn_url = None
    /\ fn_out = <<>>
    /\ fn_alt = <<>>
    /\ fn_scope = <<>>
    /\ unit_in = NoInput
    /\ unit_out = NoOutput

ScrollInit ==
    /\ Idle
    /\ mgr = NoManager
    /\ api = NoApi
    /\ driver
    /\ scroll \in ScrollStarts

(* scroll down to the bottom, time.sleep(scroll_pause_time) *)
ScrollDown ==
    /\ scroll.pc = "scroll"
    /\ scroll' = [Scrolled(scroll) EXCEPT !.pc = "measure"]
    /\ UNCHANGED <<crawl_vars, url_vars, unit_vars, mgr, api>>

(* new_height is measured; break if it equals last_height, else it becomes
   last_height and the loop goes round *)
MeasureHeight ==
    /\ scroll.pc = "measure"
    /\ scroll' = IF scroll.height = scroll.last_height
                 THEN [scroll EXCEPT !.new_height = scroll.height, !.pc = "done"]
                 ELSE [scroll EXCEPT !.new_height = scroll.height,
                                     !.last_height = scroll.height,
                                     !.pc = "scroll"]
    /\ UNCHANGED <<crawl_vars, url_vars, unit_vars, mgr, api>>

(* execute_script raises: the except of the rendered pass ends the pass *)
ScrollError ==
    /\ scroll.pc \in {"scroll", "measure"}
    /\ scroll' = [scroll EXCEPT !.pc = "failed"]
    /\ UNCHANGED <<crawl_vars, url_vars, unit_vars, mgr, api>>

ScrollRun ==
    \/ ScrollDown
    \/ MeasureHeight

ScrollNext ==
    \/ ScrollRun
    \/ ScrollError

ScrollSpec == ScrollInit /\ [][ScrollNext]_vars /\ WF_vars(ScrollRun)

-----------------------------------------------------------------------------
(* Properties of a crawl run *)

\* the URLs of the PageRecords collected so far
RecordUrls == {scraped_data[i].url : i \in DOMAIN scraped_data}

\* C1: in every reachable state of a crawl run the visited set and the failed
\* set are disjoint.
C1_VisitedFailedDisjoint == visited_urls \cap failed_urls = {}

\* C2: at every iteration boundary of the driver loop and at crawl end, the
\* URL of every PageRecord of the result collection is in the visited set.
C2_RecordsAreVisited ==
    pc \in {"loop", "done", "saved"} => RecordUrls \subseteq visited_urls

\* C2 witness: the crawl ended with two PageRecords
C2_Witness == pc = "done" /\ Len(scraped_data) = 2

\* C3: no URL appears in more than one PageRecord of the result collection.
C3_NoDuplicateRecords ==
    \A i, j \in DOMAIN scraped_data :
        scraped_data[i].url = scraped_data[j].url => i = j

\* C3 witness: with PageRecords collected, the frontier holds two entries that
\* canonicalize to the same URL, and that URL already has its PageRecord
C3_Witness ==
    \E i, j \in DOMAIN url_queue :
        /\ i < j
        /\ Normalized[url_queue[i]] = Normalized[url_queue[j]]
        /\ Normalized[url_queue[i]] \in RecordUrls

\* C4: the driver loop eventually ends, and when it ends with fewer than
\* max_pages pages scraped the frontier is empty.
C4_LoopTerminates ==
    /\ <>(pc \in {"done", "interrupted"})
    /\ [](pc = "done" /\ scraped_count < MaxPages => url_queue = <<>>)

\* C4 witness: the loop ended below the cap, with an empty frontier, after
\* links harvested from pages had been crawled
C4_Witness ==
    /\ pc = "done"
    /\ url_queue = <<>>
    /\ scraped_count < MaxPages
    /\ Cardinality(visited_urls) >= 3

\* C5: the number of PageRecords never exceeds max_pages, only successful pages
\* count toward the cap, no page is fetched once the cap is reached, and a
\* loop that ends with a non-empty frontier has scraped exactly max_pages pages.
C5_PageCap ==
    /\ Len(scraped_data) <= MaxPages
    /\ scraped_count = Len(scraped_data)
    /\ pc = "scrape" => scraped_count < MaxPages
    /\ pc = "done" /\ url_queue # <<>> => Len(scraped_data) = MaxPages

\* C5 witness: the loop stopped at the cap with URLs left in the frontier,
\* after a fetch failure that did not count
C5_Witness ==
    /\ pc = "done"
    /\ url_queue # <<>>
    /\ Len(scraped_data) = MaxPages
    /\ failed_urls # {}

\* the URLs the scope check is asked about
ProbeUrls == {urljoin(DefaultBase, href) : href \in Anchors}

\* C9: the scope check gives the same result for a URL in any two crawl
\* states: in every state its result is the one it gives in the state
\* after construction, where visited_urls and failed_urls are empty.
C9_ScopeIgnoresCrawlState ==
    \A u \in ProbeUrls : is_support_url(u) = is_support_url_of({}, {}, u)

\* the scope of the crawl: the host of base_url and the paths that start with
\* the path of base_url
InScope(u) ==
    /\ urlparse(u).netloc = urlparse(base_url).netloc
    /\ startswith(urlparse(u).path, urlparse(base_url).path)

\* C11: every URL a step adds to the frontier (by the discovery sweep or by the
\* harvesting of a page's links) is in scope, and when it is added its
\* canonical value is in neither the visited set nor the failed set.
C11_EnqueuedInScopeAndNew ==
    [][\A i \in DOMAIN url_queue' :
          i > Len(url_queue) =>
             /\ InScope(url_queue'[i])
             /\ Normalized[url_queue'[i]] \notin visited_urls \cup failed_urls]_vars

\* C11 witness: a page's links have been harvested into the frontier while the
\* visited set and the failed set held URLs
C11_Witness ==
    /\ pc = "extract"
    /\ extract.harvested > 0
    /\ visited_urls # {}
    /\ failed_urls # {}

\* the URLs scrape_page_content has been called with
CalledUrls == {c[1] : c \in calls}

\* C12: a popped URL whose canonical value is in the visited set or in the
\* failed set is discarded without a call of scrape_page_content, and no
\* canonical URL is passed to scrape_page_content twice in one crawl run.
C12_NoRetries ==
    [][pc = "loop" =>
          /\ (/\ url_queue # <<>>
              /\ Normalized[Head(url_queue)] \in visited_urls \cup failed_urls)
                => pc' # "scrape"
          /\ pc' = "scrape" => url' \notin CalledUrls]_vars

\* C12 witness: the URL at the head of the frontier canonicalizes to a URL
\* whose fetch has failed, while the loop is about to pop it
C12_Witness ==
    /\ pc = "loop"
    /\ url_queue # <<>>
    /\ scraped_count < MaxPages
    /\ <<Normalized[Head(url_queue)], "error">> \in calls
    /\ \E c \in calls : c[2] = "insufficient"

\* C13: a URL whose fetch or parse raised is in the failed set and has no
\* PageRecord; the call returns to the loop with no page, and the loop ends
\* only by its own test (empty frontier or cap reached), never by the failure.
C13_FailureIsolated ==
    /\ \A c \in calls :
          c[2] = "error" => c[1] \in failed_urls /\ c[1] \notin RecordUrls
    /\ extract.raised /\ pc \notin {"interrupted", "closed"} =>
          pc = "record" /\ content = NoPage
    /\ pc = "done" /\ failed_urls # {} =>
          url_queue = <<>> \/ scraped_count >= MaxPages

\* C13 witness: the fetch of the seed failed, and the loop went on to the end
\* of the frontier and produced a PageRecord from a later URL
C13_Witness ==
    /\ pc = "done"
    /\ url_queue = <<>>
    /\ <<DefaultBase, "error">> \in calls
    /\ Len(scraped_data) >= 1

\* C14: a URL whose page was fetched but gave too little text is never in the
\* failed set, has no PageRecord, and is in the visited set from the end of
\* its iteration on.
C14_InsufficientIsVisited ==
    \A c \in calls :
       c[2] = "insufficient" =>
          /\ c[1] \notin failed_urls
          /\ c[1] \notin RecordUrls
          /\ pc \in {"loop", "done", "saved"} => c[1] \in visited_urls

\* C14 witness: without a Chrome session, the iteration of a page that gave
\* too little text has ended, and the loop stands at its test again
C14_Witness ==
    /\ pc = "loop"
    /\ ~driver
    /\ <<url, "insufficient">> \in calls
    /\ url \in visited_urls

\* a call of scrape_page_content has returned without raising, and its return
\* value is in content
Returned == pc = "record" /\ extract.called /\ ~extract.raised

\* the length of the text that reaches the final gate: the rendered text if
\* it was asked for and is longer than the static text, else the static text
FinalLen ==
    IF extract.tried /\ extract.rendered_len > extract.static_len
    THEN extract.rendered_len ELSE extract.static_len

\* C15: scrape_page_content returns None exactly when the final text is
\* shorter than 50 characters, and a PageRecord for every final text of 50
\* characters or more.
C15_FloorIsFifty ==
    Returned => ((content = NoPage) <=> (FinalLen < ContentLengthFloor))

\* C16: the rendered fetch is attempted exactly when a Chrome session exists
\* and the cleaned static text is shorter than 200 characters; its text
\* replaces the static text iff it is strictly longer, else the static text
\* is kept (static 150 with rendered 400 gives a PageRecord of 400 characters).
C16_RenderedFallback ==
    Returned =>
       /\ extract.tried <=> (driver /\ extract.static_len < RenderedFallbackFloor)
       /\ content = LengthGate(url, FinalLen)
       /\ (extract.tried /\ extract.static_len = 150 /\ extract.rendered_len = 400)
             => content = [url |-> url, content |-> 400, content_length |-> 400]

\* C16 witness: the static text had 150 characters, the rendered one 400, and
\* the call returned a PageRecord of 400 characters
C16_Witness ==
    /\ Returned
    /\ extract.static_len = 150
    /\ extract.rendered_len = 400
    /\ content.content_length = 400

\* C17: when the rendered fetch raised, the call of scrape_page_content does
\* not end by the exception, the URL is not in the failed set, and the call
\* returns what the static text alone gives: a PageRecord with the static
\* text if that text passes the final gate.
C17_RenderErrorKeepsStatic ==
    pc = "record" /\ extract.render_failed =>
       /\ ~extract.raised
       /\ url \notin failed_urls
       /\ content = LengthGate(url, extract.static_len)

\* C17 witness: the rendered fetch raised for a page whose static text had 150
\* characters, and the call returned the PageRecord of 150 characters
C17_Witness ==
    /\ Returned
    /\ extract.render_failed
    /\ extract.static_len = 150
    /\ content = [url |-> url, content |-> 150, content_length |-> 150]

\* C18: for a fetched document in which no content selector matches and
\* which has no body, scrape_page_content returns None and has appended
\* nothing to the frontier.
C18_NoElementNoEnqueue ==
    Returned /\ ~extract.has_element =>
       content = NoPage /\ extract.harvested = 0

\* C19: when main has finished, also after an interruption, a summary has
\* been written whose total_pages_scraped is the number of PageRecords and
\* whose failed_urls_count is the number of failed URLs.
C19_InterruptKeepsSummary ==
    pc = "closed" =>
       /\ summary # <<>>
       /\ summary[Len(summary)].total_pages_scraped = Len(scraped_data)
       /\ summary[Len(summary)].failed_urls_count = Cardinality(failed_urls)

\* C20: in the state an interruption leaves, every URL with a PageRecord is in
\* the visited set and every URL scrape_page_content was called with has
\* been marked visited.
C20_InterruptAtBoundary ==
    pc = "interrupted" =>
       /\ RecordUrls \subseteq visited_urls
       /\ CalledUrls \subseteq visited_urls

\* C21: the Chrome session, acquired by the constructor if at all, is quit at
\* most once, never before main has left its try block, and exactly once
\* when main has finished, whichever way the run went: to the end, through
\* an exception in the crawl or in save_data, or through an interruption.
C21_DriverReleasedOnce ==
    /\ quits <= 1
    /\ quits = 1 => driver
    /\ pc # "closed" => quits = 0
    /\ pc = "closed" => quits = (IF driver THEN 1 ELSE 0)

\* C21 witness: main has finished after an interruption of a crawl in which a
\* fetch had raised, and the Chrome session has been quit
C21_Witness ==
    /\ pc = "closed"
    /\ driver
    /\ quits = 1
    /\ summary = <<>>
    /\ failed_urls # {}
    /\ url_queue # <<>>

\* the sum of the content_length fields of a sequence of PageRecords
RECURSIVE SumContentLength(_)
SumContentLength(pages) ==
    IF pages = <<>> THEN 0
    ELSE Head(pages).content_length + SumContentLength(Tail(pages))

\* C22: in a summary save_data has written, total_pages_scraped is the number
\* of PageRecords, total_content_size the sum of their content_length
\* fields, failed_urls_count the size of the failed set, and the pages
\* stand in the order in which they were scraped.
C22_SummaryTotals ==
    \A i \in DOMAIN summary :
       /\ summary[i].total_pages_scraped = Len(scraped_data)
       /\ summary[i].total_content_size = SumContentLength(scraped_data)
       /\ summary[i].failed_urls_count = Cardinality(failed_urls)
       /\ summary[i].support_pages = scraped_data

\* C22 witness: a summary has been written of two PageRecords of different
\* lengths and one failed URL
C22_Witness ==
    /\ pc = "saved"
    /\ summary # <<>>
    /\ Len(scraped_data) = 2
    /\ scraped_data[1].content_length # scraped_data[2].content_length
    /\ Cardinality(failed_urls) = 1

\* C27: the in-scope links of a fetched page that stand only inside nav,
\* header or footer elements and are new to the frontier are in the frontier
\* once the page was fetched (each by its canonical value), also when the call
\* then returns no page for lack of content.
C27_HarvestBeforeRemoval ==
    pc \in {"extract", "record"} =>
       \A link \in extract.nav_only :
          Normalized[link] \in NormalizedQueue(url_queue)

\* C27 witness: a page whose only new in-scope links stood in removed elements
\* had too little text, and its links wait in the frontier
C27_Witness ==
    /\ pc = "record"
    /\ ~extract.raised
    /\ content = NoPage
    /\ extract.nav_only # {}
    /\ extract.harvested = Cardinality(extract.nav_only)
    /\ \A link \in extract.nav_only : \E i \in DOMAIN url_queue : url_queue[i] = link

\* C28: exactly one delay lies between two consecutive calls of
\* scrape_page_content: when the loop is at its test or about to fetch, one
\* time.sleep(1) has run since the last call, whatever that call's outcome,
\* none has run inside an iteration before its end, and the discard of a stale
\* entry adds none.
C28_OneDelayPerFetch ==
    /\ pc \in {"loop", "scrape", "done"} /\ calls # {} => delays = 1
    /\ pc \in {"loop", "scrape", "done"} /\ calls = {} => delays = 0
    /\ pc \in {"extract", "record", "mark", "sleep"} => delays = 0

\* C28 witness: after a fetch failure and a page with too little text, the
\* loop has discarded a stale entry for the seed and is back at its test with
\* the one delay of the last call behind it
C28_Witness ==
    /\ pc = "loop"
    /\ delays = 1
    /\ Cardinality(calls) = 2
    /\ \E c \in calls : c[2] = "error"
    /\ \E c \in calls : c[2] = "insufficient"
    /\ url = entered[1]

\* C29: URLs are fetched in the order in which their canonical values first
\* entered the frontier: the n-th call of scrape_page_content is for the
\* n-th canonical URL that entered, the first for the seed.
C29_FifoOrder ==
    [][pc = "loop" /\ pc' = "scrape" =>
          /\ Len(entered) > Cardinality(calls)
          /\ url' = entered[Cardinality(calls) + 1]
          /\ calls = {} => url' = Normalized[base_url]]_vars

\* C29 witness: the third canonical URL that entered the frontier is being
\* fetched as the third, after the seed and the second
C29_Witness ==
    /\ pc = "scrape"
    /\ Cardinality(calls) = 2
    /\ CalledUrls = {entered[1], entered[2]}
    /\ url = entered[3]

\* C31: every step of the crawl leaves scraped_data as it is or appends one
\* PageRecord at its end; the records already there stay as they are, in
\* their places.
C31_AppendOnly ==
    [][\/ scraped_data' = scraped_data
       \/ /\ Len(scraped_data') = Len(scraped_data) + 1
          /\ SubSeq(scraped_data', 1, Len(scraped_data)) = scraped_data]_vars

\* C31 witness: a second PageRecord was appended behind the first, which is
\* the seed's, and the crawl and save_data have run to their end
C31_Witness ==
    /\ pc = "closed"
    /\ Len(scraped_data) = 2
    /\ scraped_data[1].url = Normalized[base_url]
    /\ scraped_data[2].url # scraped_data[1].url
    /\ summary # <<>>

\* C33: at the loop test every URL of failed_urls is in visited_urls, and no
\* URL the loop goes on to fetch is in failed_urls.
C33_FailedAreVisited ==
    [][/\ pc' = "loop" => failed_urls' \subseteq visited_urls'
       /\ pc = "loop" /\ pc' = "scrape" => url' \notin failed_urls]_vars

\* C33 witness: the frontier holds a URL whose fetch raised earlier, and the
\* loop is back at its test with that URL visited
C33_Witness ==
    /\ pc = "loop"
    /\ failed_urls # {}
    /\ \E i \in DOMAIN url_queue : Normalized[url_queue[i]] \in failed_urls
    /\ failed_urls \subseteq visited_urls

\* C34: at the loop test and during the iterations no two entries of the
\* frontier have the same canonical value.
C34_FrontierDuplicateFree ==
    pc \in {"loop", "scrape", "extract", "record", "mark", "sleep"} =>
       \A i, j \in DOMAIN url_queue :
          Normalized[url_queue[i]] = Normalized[url_queue[j]] => i = j

-----------------------------------------------------------------------------
(* Properties of the URL functions *)

\* C6: normalize_url(normalize_url(u)) = normalize_url(u).
C6_NormalizeIdempotent == Len(fn_out) >= 2 => fn_out[2] = fn_out[1]

\* C7: two absolute URLs that differ only by fragment, query string or one
\* trailing slash have the same normalize_url value, made of scheme, host and
\* path only.
C7_VariantsAgree ==
    fn_out # <<>> /\ fn_alt # <<>> =>
        /\ fn_alt[1].normalized = fn_out[1]
        /\ urlparse(fn_out[1]).scheme = fn_parts.scheme
        /\ urlparse(fn_out[1]).netloc = fn_parts.netloc
        /\ urlparse(fn_out[1]).query = <<>>
        /\ urlparse(fn_out[1]).fragment = <<>>

\* the path the claim C8 expects: one trailing slash cut, "/" itself kept
ExpectedPath(path) ==
    IF path = <<"/">> THEN path
    ELSE IF endswith(path, "/") THEN SubSeq(path, 1, Len(path) - 1)
    ELSE path

\* C8: normalize_url cuts exactly one trailing slash from the path, but keeps
\* the slash of a path that is exactly "/".
C8_StripsOneSlash ==
    fn_out # <<>> /\ fn_parts # NoParts =>
        fn_out[1] = fn_parts.scheme \o <<":", "/", "/">> \o fn_parts.netloc
                      \o ExpectedPath(fn_parts.path)

\* C10: a URL is in scope iff its host is the host of base_url and its path
\* starts with the path of base_url.
C10_ScopeFromBaseUrl ==
    fn_scope # <<>> /\ fn_parts # NoParts =>
        fn_scope[1] = (/\ fn_parts.netloc = urlparse(base_url).netloc
                       /\ startswith(fn_parts.path, urlparse(base_url).path))

-----------------------------------------------------------------------------
(* Properties of the functions on their own *)

\* the lines that are not empty and whose trimmed length exceeds three
RECURSIVE KeptLines(_)
KeptLines(lines) ==
    IF lines = <<>> THEN <<>>
    ELSE (IF Head(lines) # <<>> /\ Len(Strip(Head(lines))) > 3
          THEN <<Head(lines)>> ELSE <<>>) \o KeptLines(Tail(lines))

\* the lines, each trimmed
Trimmed(lines) == [i \in DOMAIN lines |-> Strip(lines[i])]

\* C30 as stated: clean_text returns the lines of the text that are non-empty
\* and of trimmed length above 3, in order, joined by newlines and otherwise
\* unchanged, and cleaning the result again changes nothing.
C30_KeptLinesUnchanged ==
    unit_in.op = "clean" /\ unit_out.done =>
       /\ unit_out.clean = JoinLines(KeptLines(SplitLines(unit_in.text, <<>>)))
       /\ unit_out.again = unit_out.clean

\* C30, amended: clean_text returns the trimmed forms of the lines of the text
\* whose trimmed length is above 3, in order and joined by newlines, and
\* cleaning the result again changes nothing.
C30_KeptLinesTrimmed ==
    unit_in.op = "clean" /\ unit_out.done =>
       /\ unit_out.clean =
             JoinLines(Trimmed(KeptLines(SplitLines(unit_in.text, <<>>))))
       /\ unit_out.again = unit_out.clean

\* C30 witness: a text of two lines, one padded with whitespace and kept
\* without its padding, one of three characters and dropped
C30_Witness ==
    /\ unit_in.op = "clean"
    /\ unit_out.done
    /\ unit_in.text = <<" ", "a", "b", "c", "d", "\t", "\n", "a", "b", "c">>
    /\ unit_out.clean = <<"a", "b", "c", "d">>
    /\ unit_out.again = unit_out.clean

\* the selectors of the list that match an element of the given document
Matching(dom, selectors) ==
    {i \in DOMAIN selectors : dom.elems[selectors[i]] # None}

\* C25: when a selector of the ordered list matches, the content is the
\* cleaned text of the element matched by the earliest matching selector and
\* of nothing else, also when that text is empty; the body is the source only
\* when no selector matches.
C25_SelectorCascade ==
    unit_in.op = "extract" /\ unit_out.done =>
       /\ \A i \in Matching(unit_in.dom, content_selectors) :
             (\A j \in Matching(unit_in.dom, content_selectors) : i <= j) =>
                /\ unit_out.static.source = content_selectors[i]
                /\ unit_out.static.text =
                      clean_text(handle(unit_in.dom.elems[content_selectors[i]]))
       /\ unit_out.static.source = "body" =>
             /\ Matching(unit_in.dom, content_selectors) = {}
             /\ unit_out.static.text = clean_text(handle(unit_in.dom.body))

\* C25 witness: two selectors match, the earlier one an element without text,
\* the body has text, and the content is the empty text of the earlier element
C25_Witness ==
    /\ unit_in.op = "extract"
    /\ unit_out.done
    /\ Matching(unit_in.dom, content_selectors) = {6, 7}
    /\ unit_in.dom.elems[".content"] = <<>>
    /\ unit_in.dom.elems["main"] = <<" ", "a", "b", "c", "d", "e">>
    /\ unit_in.dom.body = <<"a", "b", "\n", "w", "x", "y", "z">>
    /\ unit_out.static = [source |-> ".content", text |-> <<>>]

\* C26: for any document given to both, the extraction steps of the rendered
\* fetch choose the same element and return the same text as those of the
\* static path.
C26_SameExtraction ==
    unit_in.op = "extract" /\ unit_out.done =>
       unit_out.rendered = unit_out.static

\* the in-scope links of the anchors a pass found, none if the pass failed
PassLinks(response) ==
    IF response.ok
    THEN {n \in {Normalized[urljoin(base_url, href)] : href \in response.anchors} :
             InScope(n)}
    ELSE {}

\* the links discovery returned
Discovered == {unit_out.links[i] : i \in DOMAIN unit_out.links}

EmptyDiscoveries ==
    Orders(discover_all_support_links([ok |-> TRUE, anchors |-> {}],
                                      [ok |-> TRUE, anchors |-> {}]))

\* C24: a discovery that could not fetch the seed page, by either pass, gives
\* its caller something other than what a discovery that fetched the page and
\* found no links gives.
C24_SeedFailureSurfaced ==
    /\ unit_in.op = "discover" /\ unit_out.done
    /\ ~unit_in.static.ok
    /\ ~driver \/ ~unit_in.rendered.ok
    => unit_out.links \notin EmptyDiscoveries

-----------------------------------------------------------------------------
(* The vector database manager on its own: a manager is constructed over
   persist_directory and its methods are called one after the other *)

ManagerInit ==
    /\ Idle
    /\ scroll = NoScroll
    /\ api = NoApi
    /\ mgr \in Managers

(* create_vector_store(force_recreate=...) *)
CreateVectorStore ==
    /\ mgr.written < MaxDatabases
    /\ \E force_recreate \in BOOLEAN, loaded \in 0..MaxDocuments :
          mgr' \in create_vector_store(mgr, force_recreate, loaded)
    /\ UNCHANGED <<crawl_vars, url_vars, unit_vars, scroll, api>>

(* search_similar(query, k) *)
SearchSimilar ==
    /\ mgr' \in search(mgr, "search_similar")
    /\ UNCHANGED <<crawl_vars, url_vars, unit_vars, scroll, api>>

(* search_with_score(query, k) *)
SearchWithScore ==
    /\ mgr' \in search(mgr, "search_with_score")
    /\ UNCHANGED <<crawl_vars, url_vars, unit_vars, scroll, api>>

(* get_retriever(k) *)
GetRetriever ==
    /\ mgr' \in get_retriever(mgr)
    /\ UNCHANGED <<crawl_vars, url_vars, unit_vars, scroll, api>>

(* add_documents(documents) *)
AddDocuments ==
    /\ mgr.written < MaxDatabases
    /\ mgr' \in add_documents(mgr)
    /\ UNCHANGED <<crawl_vars, url_vars, unit_vars, scroll, api>>

(* get_collection_info() *)
GetCollectionInfo ==
    /\ mgr' \in get_collection_info(mgr)
    /\ UNCHANGED <<crawl_vars, url_vars, unit_vars, scroll, api>>

(* delete_collection() *)
DeleteCollection ==
    /\ mgr' \in delete_collection(mgr)
    /\ UNCHANGED <<crawl_vars, url_vars, unit_vars, scroll, api>>

ManagerNext ==
    \/ CreateVectorStore
    \/ SearchSimilar
    \/ SearchWithScore
    \/ GetRetriever
    \/ AddDocuments
    \/ GetCollectionInfo
    \/ DeleteCollection

ManagerSpec == ManagerInit /\ [][ManagerNext]_vars

-----------------------------------------------------------------------------
(* The views on their own: requests arrive one after the other *)

ApiInit ==
    /\ Idle
    /\ scroll = NoScroll
    /\ mgr = NoManager
    /\ api = NoApi

(* POST /api/ask/ *)
AskQuestion ==
    /\ api.requests < MaxRequests
    /\ \E valid, init_ok, chain_ok, save_ok \in BOOLEAN, retrieval \in Retrievals :
          api' = ask_question(api, valid, init_ok, retrieval, chain_ok, save_ok)
    /\ UNCHANGED <<crawl_vars, url_vars, unit_vars, scroll, mgr>>

(* GET /api/status/ *)
ServiceStatus ==
    /\ api.requests < MaxRequests
    /\ \E init_ok \in BOOLEAN : api' = service_status(api, init_ok)
    /\ UNCHANGED <<crawl_vars, url_vars, unit_vars, scroll, mgr>>

(* POST /api/search/ *)
SearchDocuments ==
    /\ api.requests < MaxRequests
    /\ \E valid, init_ok \in BOOLEAN : api' = search_documents(api, valid, init_ok)
    /\ UNCHANGED <<crawl_vars, url_vars, unit_vars, scroll, mgr>>

(* generate_answer called on a RAGService, with or without a retriever *)
GenerateAnswer ==
    /\ api.requests < MaxRequests
    /\ \E retriever, chain_ok \in BOOLEAN, retrieval \in Retrievals,
          k \in {0, max_results} :
          api' = [Incoming(api, "generate", TRUE)
                    EXCEPT !.req = [@ EXCEPT !.answer =
                                       generate_answer(retriever, retrieval,
                                                       chain_ok, k)]]
    /\ UNCHANGED <<crawl_vars, url_vars, unit_vars, scroll, mgr>>

ApiNext ==
    \/ AskQuestion
    \/ ServiceStatus
    \/ SearchDocuments
    \/ GenerateAnswer

ApiSpec == ApiInit /\ [][ApiNext]_vars

-----------------------------------------------------------------------------
(* Properties of the scroll loop *)

\* C32: the scroll loop of the rendered discovery pass ends, for a page whose
\* height stops changing and for a page that grows on every scroll.
C32_ScrollLoopEnds == <>(scroll.pc \in {"done", "failed"})

-----------------------------------------------------------------------------
(* Properties of the vector database manager *)

\* C35: create_vector_store removes the database on disk only when
\* force_recreate is set and documents were loaded; with force_recreate and
\* no documents it returns None and the database is as before; without
\* force_recreate and with a database it opens that database and reads no
\* data file.
C35_RemovesOnlyWhenRebuilding ==
    [][mgr'.call.op = "create" /\ mgr' # mgr =>
          /\ mgr'.call.removed =>
                mgr'.call.force_recreate /\ mgr'.documents > 0
          /\ mgr'.db # mgr.db /\ mgr.db # 0 =>
                mgr'.call.force_recreate /\ mgr'.documents > 0
          /\ mgr'.call.force_recreate /\ mgr'.call.read_files
                /\ mgr'.documents = 0 =>
                   mgr'.call.result = "None" /\ mgr'.db = mgr.db
          /\ ~mgr'.call.force_recreate /\ mgr.db # 0 =>
                /\ ~mgr'.call.read_files
                /\ mgr'.db = mgr.db
                /\ mgr'.documents = mgr.documents]_vars

\* C35 witness: a second create_vector_store(force_recreate=True) found no
\* document and returned None, and the database made by the first is on disk
C35_Witness ==
    /\ mgr.call.op = "create"
    /\ mgr.call.force_recreate
    /\ mgr.call.read_files
    /\ mgr.call.result = "None"
    /\ ~mgr.call.removed
    /\ mgr.documents = 0
    /\ mgr.db = 2

\* what each method returns when there is no vector store
Uninitialized ==
    [search_similar |-> "[]", search_with_score |-> "[]",
     add_documents |-> "False", get_retriever |-> "None",
     get_collection_info |-> "not initialized"]

\* C36: without a vector store search_similar and search_with_score return
\* [], add_documents returns False, get_retriever returns None and
\* get_collection_info says the store is not initialized; none raises, none
\* changes the manager or the database.
C36_UnsetStoreIsHarmless ==
    [][/\ ~mgr.vector_store
       /\ mgr'.call.op \in DOMAIN Uninitialized
       /\ mgr' # mgr
       => /\ ~mgr'.call.raised
          /\ mgr'.call.result = Uninitialized[mgr'.call.op]
          /\ [mgr' EXCEPT !.call = mgr.call] = mgr]_vars

\* C36 witness: a store was created and written to, delete_collection has
\* unset it, and get_retriever then returned None
C36_Witness ==
    /\ ~mgr.vector_store
    /\ mgr.written >= 2
    /\ mgr.db = 0
    /\ mgr.call.op = "get_retriever"
    /\ mgr.call.result = "None"
    /\ ~mgr.call.raised

-----------------------------------------------------------------------------
(* Properties of the views and of the RAG service *)

\* C37: in a series of calls of get_rag_service at most one RAGService is
\* constructed successfully; once the holder has an instance every call
\* returns it and constructs nothing; a constructor that fails is re-raised
\* (the view answers 500) with the holder still empty, and a call that finds
\* the holder empty constructs.
C37_OneService ==
    [][api'.requests # api.requests =>
          /\ api'.constructed <= 1
          /\ api.rag_service # 0 =>
                /\ api'.rag_service = api.rag_service
                /\ api'.attempts = api.attempts
          /\ api'.req.init_raised =>
                /\ api'.rag_service = 0
                /\ api'.req.status = 500
                /\ api'.served = api.served
          /\ api.rag_service = 0 /\ api'.req.asked_service =>
                api'.attempts = api.attempts + 1]_vars

\* C37 witness: a first construction failed, a second succeeded, and a third
\* call was given the instance of the second
C37_Witness ==
    /\ api.attempts = 2
    /\ api.constructed = 1
    /\ api.rag_service = 2
    /\ api.served = 2
    /\ api.requests = 3

C39_AnswerNeverRaises ==
    api.req.op = "generate" \/ (api.req.op = "ask" /\ api.req.created) =>
       /\ api.req.answer.returned
       /\ ~api.req.answer.raised
       /\ api.req.answer.failure =>
             /\ api.req.answer.retrieval_count = 0
             /\ api.req.answer.sources = 0
             /\ api.req.answer.confidence = "low"
       /\ api.req.answer.retrieved = 0 => ~api.req.answer.chain_invoked

\* C39 witness: documents were retrieved, the chain raised, and the result
\* reports the error with no sources
C39_Witness ==
    /\ api.req.op = "generate"
    /\ api.req.answer.returned
    /\ api.req.answer.retrieved = MaxRetrieved
    /\ api.req.answer.chain_invoked
    /\ api.req.answer.error
    /\ api.req.answer.retrieval_count = 0
    /\ api.req.answer.confidence = "low"

====
